---- MODULE Spec2Model ----
(***************************************************************************)
(* A model of get_all_songs.py: the paginated retrieval of playlists,      *)
(* saved tracks and playlist tracks, the memoised track lookup, the track  *)
(* formatter, the two-tier JSON export and the main pipeline with its      *)
(* confirmation prompt and interrupt handler.                              *)
(*                                                                         *)
(* Python values are tagged records, so that None, str, int, list and dict *)
(* can share a collection.  A str is its sequence of code points, so that  *)
(* lower(), join() and the f-string of the minimal export are computed.    *)
(***************************************************************************)
EXTENDS Integers, Sequences, FiniteSets, TLC

VARIABLES
    pc,                 \* main(): the pipeline stage, or which specification runs
    playlists,          \* main(): the listing returned by get_user_playlists_and_saved_tracks
    saved_tracks,       \* main(): the saved tracks returned with the listing
    idx,                \* main(): position of the for loop of lines 322-328
    all_playlist_data,  \* main(): the dict built by lines 321-328, in insertion order
    cache,              \* the lru_cache of get_playlist_tracks: playlist_id -> result
    requests,           \* requests the playlist-tracks endpoint has received, per id
    call,               \* the last library call: its arguments, answer and network calls
    output,             \* the output directory: absent, or the two documents written
    exit_status,        \* the process's exit status once it has exited
    outcome             \* why the process ended

vars == <<pc, playlists, saved_tracks, idx, all_playlist_data, cache, requests,
          call, output, exit_status, outcome>>

----------------------------------------------------------------------------
(* Bounds of the model *)

MaxPages == 2       \* pages an endpoint holds for one listing
MaxPageSize == 2    \* items on one page
MaxTracks == 2      \* length of a track list handed to the export directly

----------------------------------------------------------------------------
(* Python values *)

PyNone == [t |-> "None"]
PyStr(s) == [t |-> "str", v |-> s]
PyInt(n) == [t |-> "int", v |-> n]
PyList(q) == [t |-> "list", v |-> q]
PyDict(f) == [t |-> "dict", v |-> f]

EmptyMap == [k \in {} |-> PyNone]
EmptyDict == PyDict(EmptyMap)
EmptyStr == PyStr(<<>>)

IsDict(x) == x.t = "dict"
IsNone(x) == x.t = "None"
HasKey(d, k) == k \in DOMAIN d.v

\* dict.get(k, default): the value under k, the default only when k is absent
Get(d, k, default) == IF HasKey(d, k) THEN d.v[k] ELSE default

\* str literals of the source, as code points
S_liked_songs == <<108, 105, 107, 101, 100, 95, 115, 111, 110, 103, 115>>
S_Liked_Songs == <<76, 105, 107, 101, 100, 32, 83, 111, 110, 103, 115>>
S_You == <<89, 111, 117>>
S_None == <<78, 111, 110, 101>>
S_comma == <<44, 32>>
S_dash == <<32, 45, 32, 91>>
S_close == <<93>>

\* str.lower() on ASCII: A..Z move to a..z, every other code point stays
Lower(s) == [i \in 1..Len(s) |-> IF s[i] \in 65..90 THEN s[i] + 32 ELSE s[i]]

\* str < str: lexicographic on code points, a proper prefix first
RECURSIVE StrLt(_, _)
StrLt(a, b) ==
    IF b = <<>> THEN FALSE
    ELSE IF a = <<>> THEN TRUE
    ELSE IF a[1] # b[1] THEN a[1] < b[1]
    ELSE StrLt(Tail(a), Tail(b))

StrLe(a, b) == ~StrLt(b, a)

----------------------------------------------------------------------------
(* The remote API: a paginated endpoint answers with a page {items, next}; *)
(* next is 0 for null, else the cursor of another page; sp.next follows it *)

sp_next(store, results) == store[results.next]

\* The pages a client following the cursors from the first page is given
RECURSIVE PagesFrom(_, _)
PagesFrom(store, i) ==
    IF store[i].next = 0 THEN <<store[i]>>
    ELSE <<store[i]>> \o PagesFrom(store, store[i].next)

RECURSIVE Concat(_)
Concat(pages) ==
    IF pages = <<>> THEN <<>> ELSE pages[1].items \o Concat(Tail(pages))

----------------------------------------------------------------------------
(* get_saved_tracks, lines 137-145 *)

\* a walk that keeps only the page it is on
RECURSIVE saved_loop_keeps_last(_, _, _, _)
saved_loop_keeps_last(store, results, tracks, net) ==
    IF results.next # 0
    THEN saved_loop_keeps_last(store, sp_next(store, results), results.items,
                               Append(net, "next"))
    ELSE [ret |-> results.items, net |-> net]

RECURSIVE saved_loop(_, _, _, _)
saved_loop(store, results, tracks, net) ==
    LET extended == tracks \o results.items
    IN  IF results.next # 0
        THEN saved_loop(store, sp_next(store, results), extended, Append(net, "next"))
        ELSE [ret |-> extended, net |-> net]

get_saved_tracks(store) ==
    saved_loop(store, store[1], <<>>, <<"current_user_saved_tracks">>)

----------------------------------------------------------------------------
(* get_user_playlists_and_saved_tracks, lines 100-126 *)

total_of(playlist) == playlist.v["tracks"].v["total"].v

\* a walk that keeps every playlist, the empty ones too
RECURSIVE playlists_loop_keeps_all(_, _, _, _)
playlists_loop_keeps_all(store, results, kept, net) ==
    LET extended == kept \o results.items
    IN  IF results.next # 0
        THEN playlists_loop_keeps_all(store, sp_next(store, results), extended,
                                      Append(net, "next"))
        ELSE [ret |-> extended, net |-> net]

\* lines 100-109: the walk over the playlist listing, keeping total > 0
RECURSIVE playlists_loop(_, _, _, _)
playlists_loop(store, results, kept, net) ==
    LET extended == kept \o SelectSeq(results.items, LAMBDA p : total_of(p) > 0)
    IN  IF results.next # 0
        THEN playlists_loop(store, sp_next(store, results), extended, Append(net, "next"))
        ELSE [ret |-> extended, net |-> net]

walk_playlists(store) ==
    playlists_loop(store, store[1], <<>>, <<"current_user_playlists">>)

\* lines 116-120
liked_songs_playlist(saved) ==
    PyDict([id |-> PyStr(S_liked_songs),
            name |-> PyStr(S_Liked_Songs),
            tracks |-> PyDict([total |-> PyInt(Len(saved))])])

\* a sort key that keeps the case
sort_key_case_sensitive(x) == x.v["name"].v

\* line 124: the sort key
sort_key(x) == Lower(x.v["name"].v)

\* list.sort is stable: an element goes after every element whose key is not greater
RECURSIVE insert_sorted(_, _)
insert_sorted(sorted, x) ==
    IF sorted = <<>> THEN <<x>>
    ELSE IF StrLt(sort_key(x), sort_key(sorted[1])) THEN <<x>> \o sorted
    ELSE <<sorted[1]>> \o insert_sorted(Tail(sorted), x)

RECURSIVE sort_playlists(_)
sort_playlists(list) ==
    IF list = <<>> THEN <<>>
    ELSE insert_sorted(sort_playlists(SubSeq(list, 1, Len(list) - 1)), list[Len(list)])

\* lines 111-126, given the list the walk of lines 100-109 kept
finish_listing(kept, saved) ==
    sort_playlists(IF saved # <<>> THEN Append(kept, liked_songs_playlist(saved)) ELSE kept)

----------------------------------------------------------------------------
(* get_playlist_tracks, lines 159-170 (the body under the lru_cache) *)

RECURSIVE tracks_loop(_, _, _, _)
tracks_loop(store, results, tracks, net) ==
    LET extended == tracks \o results.items
    IN  IF results.next # 0
        THEN tracks_loop(store, sp_next(store, results), extended, Append(net, "next"))
        ELSE [ret |-> extended, net |-> net]

\* a lookup without the branch of line 159
get_playlist_tracks_no_sentinel(playlist_id, savedStore, tracksStore) ==
    tracks_loop(tracksStore, tracksStore[1], <<>>, <<"playlist_tracks">>)

get_playlist_tracks(playlist_id, savedStore, tracksStore) ==
    IF playlist_id = S_liked_songs
    THEN get_saved_tracks(savedStore)
    ELSE tracks_loop(tracksStore, tracksStore[1], <<>>, <<"playlist_tracks">>)

----------------------------------------------------------------------------
(* format_track_data, lines 181-196.  The answer is the value returned, or *)
(* raised: an attribute access on a value that is no dict (None has no     *)
(* .get) or an iteration over None raises out of the function.             *)

\* line 190: iterating the artists and calling .get on each
artists_raise(track_info) ==
    LET artists == Get(track_info, "artists", PyList(<<>>))
    IN  \/ artists.t # "list"
        \/ \E i \in 1..Len(artists.v) : ~IsDict(artists.v[i])

artist_names(track_info) ==
    LET artists == Get(track_info, "artists", PyList(<<>>))
    IN  [i \in 1..Len(artists.v) |-> Get(artists.v[i], "name", EmptyStr)]

format_track_data(track) ==
    IF ~IsDict(track) \/ ~HasKey(track, "track")
    THEN [raised |-> FALSE, logged |-> TRUE, ret |-> EmptyDict]
    ELSE LET track_info == track.v["track"]
         IN  IF \/ ~IsDict(track_info)
                \/ artists_raise(track_info)
                \/ ~IsDict(Get(track_info, "album", EmptyDict))
                \/ ~IsDict(Get(track_info, "external_urls", EmptyDict))
             THEN [raised |-> TRUE, logged |-> FALSE, ret |-> PyNone]
             ELSE [raised |-> FALSE, logged |-> FALSE, ret |-> PyDict(
                   [id |-> Get(track_info, "id", EmptyStr),
                    name |-> Get(track_info, "name", EmptyStr),
                    artists |-> PyList(artist_names(track_info)),
                    album |-> Get(Get(track_info, "album", EmptyDict), "name", EmptyStr),
                    duration_ms |-> Get(track_info, "duration_ms", PyInt(0)),
                    added_at |-> Get(track, "added_at", EmptyStr),
                    uri |-> Get(track_info, "uri", EmptyStr),
                    external_url |-> Get(Get(track_info, "external_urls", EmptyDict),
                                         "spotify", EmptyStr)])]

----------------------------------------------------------------------------
(* save_playlists_to_json, lines 209-271: the two documents' playlist      *)
(* lists.  The export_date and the directory name are the clock's.         *)

\* ', '.join(names), line 263: every item must be a str
RECURSIVE join(_, _)
join(sep, names) ==
    IF names = <<>> THEN <<>>
    ELSE IF Len(names) = 1 THEN names[1].v
    ELSE names[1].v \o sep \o join(sep, Tail(names))

\* the f-string's {value}: a str as it is, None as the text None
format_value(x) == IF x.t = "str" THEN x.v ELSE S_None

\* lines 263-265; raised when the formatted track has no 'artists' (KeyError)
\* or an artist name is no str (TypeError)
minimal_track(full_track) ==
    IF ~HasKey(full_track, "artists")
       \/ \E i \in 1..Len(full_track.v["artists"].v) : full_track.v["artists"].v[i].t # "str"
    THEN [raised |-> TRUE, ret |-> PyNone]
    ELSE [raised |-> FALSE,
          ret |-> PyStr(format_value(full_track.v["name"]) \o S_dash
                        \o join(S_comma, full_track.v["artists"].v) \o S_close)]

\* lines 254-268: the loop over one playlist's tracks
RECURSIVE export_tracks(_, _, _)
export_tracks(tracks, full, minimal) ==
    IF tracks = <<>> THEN [full |-> full, minimal |-> minimal]
    ELSE LET track == tracks[1]
             f == format_track_data(track)
         IN  IF IsNone(track) THEN export_tracks(Tail(tracks), full, minimal)
             ELSE IF f.raised THEN export_tracks(Tail(tracks), full, minimal)
             ELSE IF minimal_track(f.ret).raised
                  THEN export_tracks(Tail(tracks), Append(full, f.ret), minimal)
             ELSE export_tracks(Tail(tracks), Append(full, f.ret),
                                Append(minimal, minimal_track(f.ret).ret))

\* an export that skips an entry whose track list is None
RECURSIVE export_entries_skips_null_tracks(_, _, _)
export_entries_skips_null_tracks(items, full, minimal) ==
    IF items = <<>> THEN [full |-> full, minimal |-> minimal]
    ELSE LET playlist_data == items[1].value
             playlist_info == Get(playlist_data, "playlist_info", PyNone)
             got == Get(playlist_data, "tracks", PyList(<<>>))
             out == export_tracks(got.v, <<>>, <<>>)
         IN  IF IsNone(playlist_data) \/ IsNone(playlist_info) \/ IsNone(got)
             THEN export_entries_skips_null_tracks(Tail(items), full, minimal)
             ELSE export_entries_skips_null_tracks(Tail(items),
                    Append(full, PyDict(
                       [id |-> Get(playlist_info, "id", PyNone),
                        name |-> Get(playlist_info, "name", PyNone),
                        description |-> Get(playlist_info, "description", EmptyStr),
                        owner |-> Get(Get(playlist_info, "owner", EmptyDict),
                                      "display_name", PyStr(S_You)),
                        tracks_count |-> Get(Get(playlist_info, "tracks", EmptyDict),
                                             "total", PyInt(0)),
                        tracks |-> PyList(out.full)])),
                    Append(minimal, PyDict(
                       [name |-> Get(playlist_info, "name", PyNone),
                        tracks |-> PyList(out.minimal)])))

\* lines 221-271: the loop over playlists_data.items(), a sequence of
\* [key, value] in insertion order
RECURSIVE export_entries(_, _, _)
export_entries(items, full, minimal) ==
    IF items = <<>> THEN [full |-> full, minimal |-> minimal]
    ELSE LET playlist_data == items[1].value
             playlist_info == Get(playlist_data, "playlist_info", PyNone)
             got == Get(playlist_data, "tracks", PyList(<<>>))
             tracks == IF IsNone(got) THEN <<>> ELSE got.v
             out == export_tracks(tracks, <<>>, <<>>)
         IN  IF IsNone(playlist_data) THEN export_entries(Tail(items), full, minimal)
             ELSE IF IsNone(playlist_info) THEN export_entries(Tail(items), full, minimal)
             ELSE export_entries(Tail(items),
                    Append(full, PyDict(
                       [id |-> Get(playlist_info, "id", PyNone),
                        name |-> Get(playlist_info, "name", PyNone),
                        description |-> Get(playlist_info, "description", EmptyStr),
                        owner |-> Get(Get(playlist_info, "owner", EmptyDict),
                                      "display_name", PyStr(S_You)),
                        tracks_count |-> Get(Get(playlist_info, "tracks", EmptyDict),
                                             "total", PyInt(0)),
                        tracks |-> PyList(out.full)])),
                    Append(minimal, PyDict(
                       [name |-> Get(playlist_info, "name", PyNone),
                        tracks |-> PyList(out.minimal)])))

save_playlists_to_json(playlists_data) == export_entries(playlists_data, <<>>, <<>>)

----------------------------------------------------------------------------
(* main, lines 321-328: all_playlist_data[name] = {...} on a dict that     *)
(* keeps insertion order and replaces the value of a key it already holds  *)

HasEntry(d, key) == \E i \in 1..Len(d) : d[i].key = key

dict_set(d, key, value) ==
    IF HasEntry(d, key)
    THEN [i \in 1..Len(d) |-> IF d[i].key = key THEN [key |-> key, value |-> value] ELSE d[i]]
    ELSE Append(d, [key |-> key, value |-> value])

----------------------------------------------------------------------------
(* lru_cache(maxsize=None) around get_playlist_tracks, line 147: one       *)
(* client, so the key is the playlist id; an entry is never evicted        *)

\* the function without its decorator
lru_cache_call_undecorated(playlist_id, savedStore, tracksStore) ==
    LET r == get_playlist_tracks(playlist_id, savedStore, tracksStore)
    IN  [hit |-> FALSE, ret |-> r.ret, net |-> r.net]

lru_cache_call(playlist_id, savedStore, tracksStore) ==
    IF playlist_id \in DOMAIN cache
    THEN [hit |-> TRUE, ret |-> cache[playlist_id], net |-> <<>>]
    ELSE LET r == get_playlist_tracks(playlist_id, savedStore, tracksStore)
         IN  [hit |-> FALSE, ret |-> r.ret, net |-> r.net]

cache_after(playlist_id, answer) ==
    IF answer.hit THEN cache
    ELSE [k \in DOMAIN cache \cup {playlist_id} |->
             IF k = playlist_id THEN answer.ret ELSE cache[k]]

\* the playlist-tracks endpoint counts the requests it receives for an id
requests_after(playlist_id, answer) ==
    IF answer.net # <<>> /\ answer.net[1] = "playlist_tracks"
    THEN [requests EXCEPT ![playlist_id] = @ + 1]
    ELSE requests

----------------------------------------------------------------------------
(* confirm_playlists, lines 300-307: the answer typed, lower-cased and     *)
(* stripped, decides; anything else prompts again                          *)

IsSpace(c) == c \in {32, 9, 10}

RECURSIVE lstrip(_)
lstrip(s) == IF s # <<>> /\ IsSpace(s[1]) THEN lstrip(Tail(s)) ELSE s

RECURSIVE rstrip(_)
rstrip(s) ==
    IF s # <<>> /\ IsSpace(s[Len(s)]) THEN rstrip(SubSeq(s, 1, Len(s) - 1)) ELSE s

strip(s) == rstrip(lstrip(s))

S_y == <<121>>
S_yes == <<121, 101, 115>>
S_n == <<110>>
S_no == <<110, 111>>

confirm_playlists(typed) ==
    LET response == strip(Lower(typed))
    IN  IF response \in {S_y, S_yes} THEN "yes"
        ELSE IF response \in {S_n, S_no} THEN "no"
        ELSE "again"

----------------------------------------------------------------------------
(* The process's exit status.  sys.exit(n) raises SystemExit(n): in the    *)
(* interrupt handler (line 38), on a declined confirmation (line 319) and  *)
(* for missing credentials (line 59).  main's handlers (lines 334-339)     *)
(* catch KeyboardInterrupt and Exception; SystemExit is neither, leaves    *)
(* main and ends the process with its code.  When main returns the status  *)
(* is 0.                                                                   *)

SystemExit(code) == [class |-> "SystemExit", code |-> code]

raised_by(why) ==
    CASE why = "interrupted" -> SystemExit(0)
      [] why = "declined" -> SystemExit(0)
      [] why = "config" -> SystemExit(1)
      [] why = "error" -> [class |-> "Exception", code |-> 1]

\* handlers that catch everything but KeyboardInterrupt as an error
main_handlers_catch_all(exception) ==
    IF exception.class = "KeyboardInterrupt" THEN 0 ELSE 1

main_handlers(exception) ==
    CASE exception.class = "KeyboardInterrupt" -> 0
      [] exception.class = "Exception" -> 1
      [] OTHER -> exception.code

exit_code(why) == IF why = "completed" THEN 0 ELSE main_handlers(raised_by(why))

----------------------------------------------------------------------------
(* What the remote API may answer, and what a caller may pass *)

S_p1 == <<112, 49>>
S_p2 == <<112, 50>>
S_p3 == <<112, 51>>
S_p4 == <<112, 52>>
S_saved == <<115>>

\* the k-th item an endpoint holds for an owner: a well-formed membership record
Track(owner, k) ==
    PyDict([track |-> PyDict([id |-> PyStr(owner \o <<58, 48 + k>>),
                              name |-> PyStr(<<84, 48 + k>>),
                              artists |-> PyList(<<PyDict([name |-> PyStr(<<96 + k>>)])>>)]),
            added_at |-> PyStr(<<50, 48, 50, 52>>)])

Capacity == MaxPages * MaxPageSize

ItemsOf(owner) == [k \in 1..Capacity |-> Track(owner, k)]

\* a pagination: the page sizes, and the page whose next is null
Shapes ==
    UNION {{[sizes |-> sz, last |-> l] : sz \in [1..n -> 0..MaxPageSize], l \in 1..n}
           : n \in 1..MaxPages}

RECURSIVE SumTo(_, _)
SumTo(sizes, k) == IF k = 0 THEN 0 ELSE sizes[k] + SumTo(sizes, k - 1)

Total(shape) == SumTo(shape.sizes, Len(shape.sizes))

\* the pages of a pagination over the first Total(shape) items
Build(shape, items) ==
    [k \in 1..Len(shape.sizes) |->
        [items |-> SubSeq(items, SumTo(shape.sizes, k - 1) + 1, SumTo(shape.sizes, k)),
         next |-> IF k = shape.last \/ k = Len(shape.sizes) THEN 0 ELSE k + 1]]

Reached(store) == Concat(PagesFrom(store, 1))

\* the pagination of n items under a page limit, as the API cuts a listing
PagesNeeded(n, limit) == IF n = 0 THEN 1 ELSE (n + limit - 1) \div limit

Regular(n, limit) ==
    [sizes |-> [k \in 1..PagesNeeded(n, limit) |->
                   IF k * limit <= n THEN limit ELSE n - (k - 1) * limit],
     last |-> PagesNeeded(n, limit)]

RegularShapes ==
    UNION {{Regular(n, limit) :
               limit \in {l \in 1..MaxPageSize : PagesNeeded(n, l) <= MaxPages}}
           : n \in 0..Capacity}

SavedStores == {Build(sh, ItemsOf(S_saved)) : sh \in Shapes}

RegularSavedStores == {Build(sh, ItemsOf(S_saved)) : sh \in RegularShapes}

OnePage(stores) == {st \in stores : Len(st) = 1}

Playlist(id, name, total) ==
    PyDict([id |-> PyStr(id),
            name |-> PyStr(name),
            description |-> EmptyStr,
            owner |-> PyDict([display_name |-> PyStr(<<117>>)]),
            tracks |-> PyDict([total |-> PyInt(total)])])

\* the user's playlists: two share a display name, one is empty
PlaylistPool ==
    {Playlist(S_p1, <<98>>, 3), Playlist(S_p2, <<65>>, 1),
     Playlist(S_p3, <<99>>, 0), Playlist(S_p4, <<98>>, 1)}

InjSeqs(S, n) == {q \in [1..n -> S] : \A i, j \in 1..n : i # j => q[i] # q[j]}

PlaylistStores ==
    UNION {{Build(sh, q) : q \in InjSeqs(PlaylistPool, Total(sh))}
           : sh \in {x \in Shapes : Total(x) <= Cardinality(PlaylistPool)}}

RegularPlaylistStores ==
    UNION {{Build(sh, q) : q \in InjSeqs(PlaylistPool, Total(sh))}
           : sh \in {x \in RegularShapes : Total(x) <= Cardinality(PlaylistPool)}}

AllIds == {S_liked_songs, S_p1, S_p2, S_p3, S_p4}

TrackStores == [id \in AllIds |-> {Build(sh, ItemsOf(id)) : sh \in Shapes}]

RegularTrackStores == [id \in AllIds |-> {Build(sh, ItemsOf(id)) : sh \in RegularShapes}]

\* the playlist-tracks endpoint holds as many tracks as the listing announced
TrackStoresFor(playlist) ==
    {st \in RegularTrackStores[playlist.v["id"].v] : Len(Reached(st)) = total_of(playlist)}

\* an endpoint the call does not select holds one page with one track of its own
Elsewhere(owner) == Build([sizes |-> <<1>>, last |-> 1], ItemsOf(owner))

\* what the two track endpoints hold when get_playlist_tracks is called with an
\* id: any pagination for the endpoint the id selects (one page, of any size,
\* when the id is already memoised), and Elsewhere for the other
ServerAnswers(playlist_id, savedStores, trackStores, memoised) ==
    IF playlist_id = S_liked_songs
    THEN {[saved |-> s, tracks |-> Elsewhere(playlist_id)] :
             s \in IF memoised THEN OnePage(savedStores) ELSE savedStores}
    ELSE {[saved |-> Elsewhere(S_saved), tracks |-> t] :
             t \in IF memoised THEN OnePage(trackStores) ELSE trackStores}

\* what the operator may type at the prompt
Typed == {<<121>>, <<32, 89, 69, 83>>, <<110, 10>>, <<78, 111>>, <<109>>}

\* raw records a track list may hold
RawTracks ==
    {PyNone,
     PyStr(<<120>>),
     EmptyDict,
     PyDict([added_at |-> PyStr(<<50, 48, 50, 52>>)]),
     PyDict([track |-> PyNone, added_at |-> PyStr(<<50, 48, 50, 52>>)]),
     PyDict([track |-> EmptyDict]),
     PyDict([track |-> PyDict([name |-> PyStr(<<84>>), artists |-> PyNone])]),
     PyDict([track |-> PyDict([name |-> PyStr(<<84>>), album |-> PyNone])]),
     PyDict([track |-> PyDict([name |-> PyStr(<<84>>), artists |-> PyList(<<PyNone>>)])]),
     PyDict([track |-> PyDict([name |-> PyNone,
                               artists |-> PyList(<<PyDict([name |-> PyNone])>>)])]),
     PyDict([track |-> PyDict([id |-> PyStr(<<105>>), name |-> PyStr(<<84>>),
                               artists |-> PyList(<<PyDict([name |-> PyStr(<<97>>)]),
                                                    PyDict([name |-> PyStr(<<98>>)])>>),
                               album |-> PyDict([name |-> PyStr(<<76>>)]),
                               duration_ms |-> PyInt(1000),
                               uri |-> PyStr(<<117>>),
                               external_urls |-> PyDict([spotify |-> PyStr(<<104>>)])]),
             added_at |-> PyStr(<<50, 48, 50, 52>>)]),
     Track(S_p1, 1), Track(S_p1, 2)}

\* the records the export is given in a track list
ExportTracks ==
    {PyNone,
     PyDict([added_at |-> PyStr(<<50, 48, 50, 52>>)]),
     PyDict([track |-> PyNone, added_at |-> PyStr(<<50, 48, 50, 52>>)]),
     Track(S_p1, 1), Track(S_p1, 2)}

TrackLists == UNION {[1..n -> ExportTracks] : n \in 0..MaxTracks}

EntryValues(info) ==
    {PyNone,
     PyDict([playlist_info |-> PyNone, tracks |-> PyList(<<>>)]),
     PyDict([playlist_info |-> info, tracks |-> PyNone]),
     PyDict([playlist_info |-> info])}
    \cup {PyDict([playlist_info |-> info, tracks |-> PyList(q)]) : q \in TrackLists}

Entries(info) == {[key |-> info.v["name"].v, value |-> v] : v \in EntryValues(info)}

\* a mapping from playlist name to {playlist_info, tracks}, at most two names
ExportInputs ==
    LET first == Entries(Playlist(S_p1, <<98>>, 3))
        second == Entries(Playlist(S_p2, <<65>>, 1))
    IN  {<<>>} \cup {<<a>> : a \in first} \cup {<<a, b>> : a \in first, b \in second}

----------------------------------------------------------------------------
(* The state after start-up *)

NoCall == [fn |-> "none"]
NoOutput == [dir |-> FALSE, written |-> FALSE, full |-> <<>>, minimal |-> <<>>]

Fresh ==
    /\ playlists = <<>>
    /\ saved_tracks = <<>>
    /\ idx = 0
    /\ all_playlist_data = <<>>
    /\ cache = EmptyMap
    /\ requests = [id \in AllIds |-> 0]
    /\ call = NoCall
    /\ output = NoOutput
    /\ exit_status = -1
    /\ outcome = "running"

Init == pc = "auth" /\ Fresh

Exit(why) ==
    /\ pc' = "exited"
    /\ outcome' = why
    /\ exit_status' = exit_code(why)

----------------------------------------------------------------------------
(* main, lines 309-339 *)

\* line 312, get_spotify_client: without the three credentials, sys.exit(1)
GetSpotifyClient ==
    /\ pc = "auth"
    /\ \E credentials \in BOOLEAN :
          IF credentials
          THEN pc' = "list_playlists" /\ UNCHANGED <<outcome, exit_status>>
          ELSE Exit("config")
    /\ UNCHANGED <<playlists, saved_tracks, idx, all_playlist_data, cache, requests,
                   call, output>>

\* line 315, first half: lines 100-109 of get_user_playlists_and_saved_tracks
ListPlaylists ==
    /\ pc = "list_playlists"
    /\ \E store \in RegularPlaylistStores :
          LET r == walk_playlists(store)
          IN  call' = [fn |-> "current_user_playlists", store |-> store,
                       ret |-> r.ret, net |-> r.net]
    /\ pc' = "list_saved"
    /\ UNCHANGED <<playlists, saved_tracks, idx, all_playlist_data, cache, requests,
                   output, exit_status, outcome>>

\* line 315, second half: lines 111-126, and the assignment of the pair returned
ListSavedTracks ==
    /\ pc = "list_saved"
    /\ \E store \in RegularSavedStores :
          LET r == get_saved_tracks(store)
          IN  /\ call' = [fn |-> "get_saved_tracks", store |-> store,
                          listed |-> call.store, ret |-> r.ret, net |-> r.net]
              /\ saved_tracks' = r.ret
              /\ playlists' = finish_listing(call.ret, r.ret)
    /\ pc' = "confirm"
    /\ UNCHANGED <<idx, all_playlist_data, cache, requests, output, exit_status, outcome>>

\* lines 317-321
ConfirmPlaylists ==
    /\ pc = "confirm"
    /\ \E typed \in Typed :
          LET answer == confirm_playlists(typed)
          IN  CASE answer = "yes" ->
                     /\ pc' = "fetch"
                     /\ idx' = 1
                     /\ UNCHANGED <<outcome, exit_status>>
                [] answer = "no" ->
                     /\ Exit("declined")
                     /\ UNCHANGED idx
                [] OTHER ->
                     UNCHANGED <<pc, idx, outcome, exit_status>>
    /\ UNCHANGED <<playlists, saved_tracks, all_playlist_data, cache, requests,
                   call, output>>

\* lines 322-328: one iteration of the loop
FetchTracks ==
    /\ pc = "fetch"
    /\ idx <= Len(playlists)
    /\ LET playlist == playlists[idx]
           playlist_id == playlist.v["id"].v
       IN  \E server \in ServerAnswers(playlist_id, RegularSavedStores,
                                       TrackStoresFor(playlist),
                                       playlist_id \in DOMAIN cache) :
              LET answer == lru_cache_call(playlist_id, server.saved, server.tracks)
              IN  /\ call' = [fn |-> "get_playlist_tracks", id |-> playlist_id,
                              saved |-> server.saved, tracks |-> server.tracks,
                              hit |-> answer.hit, ret |-> answer.ret, net |-> answer.net]
                  /\ cache' = cache_after(playlist_id, answer)
                  /\ requests' = requests_after(playlist_id, answer)
                  /\ all_playlist_data' =
                        dict_set(all_playlist_data, playlist.v["name"].v,
                                 PyDict([playlist_info |-> playlist,
                                         tracks |-> PyList(answer.ret)]))
    /\ idx' = idx + 1
    /\ UNCHANGED <<pc, playlists, saved_tracks, output, exit_status, outcome>>

\* line 331, save_playlists_to_json: lines 205-207 make the output directory
SaveMakeDir ==
    /\ pc = "fetch"
    /\ idx = Len(playlists) + 1
    /\ output' = [output EXCEPT !.dir = TRUE]
    /\ pc' = "write"
    /\ UNCHANGED <<playlists, saved_tracks, idx, all_playlist_data, cache, requests,
                   call, exit_status, outcome>>

\* lines 209-285 build and write the two documents; main returns
SaveWrite ==
    /\ pc = "write"
    /\ LET docs == save_playlists_to_json(all_playlist_data)
       IN  output' = [dir |-> TRUE, written |-> TRUE,
                      full |-> docs.full, minimal |-> docs.minimal]
    /\ Exit("completed")
    /\ UNCHANGED <<playlists, saved_tracks, idx, all_playlist_data, cache, requests, call>>

\* lines 36-40: SIGINT at any point of the run
Interrupt ==
    /\ pc \in {"auth", "list_playlists", "list_saved", "confirm", "fetch", "write"}
    /\ Exit("interrupted")
    /\ UNCHANGED <<playlists, saved_tracks, idx, all_playlist_data, cache, requests,
                   call, output>>

\* lines 337-339: a request to the API fails and main catches the exception
RequestFails ==
    /\ \/ pc \in {"list_playlists", "list_saved"}
       \/ pc = "fetch" /\ idx <= Len(playlists) /\ playlists[idx].v["id"].v \notin DOMAIN cache
    /\ Exit("error")
    /\ UNCHANGED <<playlists, saved_tracks, idx, all_playlist_data, cache, requests,
                   call, output>>

Next ==
    \/ GetSpotifyClient
    \/ ListPlaylists
    \/ ListSavedTracks
    \/ ConfirmPlaylists
    \/ FetchTracks
    \/ SaveMakeDir
    \/ SaveWrite
    \/ Interrupt
    \/ RequestFails

Spec == Init /\ [][Next]_vars

----------------------------------------------------------------------------
(* The functions called on their own, as a library: get_playlist_tracks    *)
(* any number of times with one client                                     *)

CallIds == {S_liked_songs, S_p1}

InitApi == pc = "api" /\ Fresh

CallGetPlaylistTracks ==
    /\ pc = "api"
    /\ call.fn \in {"none", "get_playlist_tracks"}
    /\ \E playlist_id \in CallIds :
       \E server \in ServerAnswers(playlist_id, SavedStores, TrackStores[playlist_id],
                                    playlist_id \in DOMAIN cache) :
          LET answer == lru_cache_call(playlist_id, server.saved, server.tracks)
          IN  /\ call' = [fn |-> "get_playlist_tracks", id |-> playlist_id,
                          saved |-> server.saved, tracks |-> server.tracks,
                          hit |-> answer.hit, ret |-> answer.ret, net |-> answer.net]
              /\ cache' = cache_after(playlist_id, answer)
              /\ requests' = requests_after(playlist_id, answer)
    /\ UNCHANGED <<pc, playlists, saved_tracks, idx, all_playlist_data, output,
                   exit_status, outcome>>

\* lines 100-109 on their own, from a fresh process
CallWalkPlaylists ==
    /\ pc = "api"
    /\ call = NoCall
    /\ \E store \in PlaylistStores :
          LET r == walk_playlists(store)
          IN  call' = [fn |-> "current_user_playlists", store |-> store,
                       ret |-> r.ret, net |-> r.net]
    /\ UNCHANGED <<pc, playlists, saved_tracks, idx, all_playlist_data, cache, requests,
                   output, exit_status, outcome>>

\* get_saved_tracks on its own, from a fresh process
CallGetSavedTracks ==
    /\ pc = "api"
    /\ call = NoCall
    /\ \E store \in SavedStores :
          LET r == get_saved_tracks(store)
          IN  call' = [fn |-> "get_saved_tracks", store |-> store,
                       ret |-> r.ret, net |-> r.net]
    /\ UNCHANGED <<pc, playlists, saved_tracks, idx, all_playlist_data, cache, requests,
                   output, exit_status, outcome>>

NextTracks == CallGetPlaylistTracks \/ CallWalkPlaylists \/ CallGetSavedTracks

SpecTracks == InitApi /\ [][NextTracks]_vars

----------------------------------------------------------------------------
(* format_track_data and save_playlists_to_json called on their own *)

CallFormatTrackData ==
    /\ pc = "api"
    /\ call = NoCall
    /\ \E track \in RawTracks :
          call' = [fn |-> "format_track_data", arg |-> track,
                   answer |-> format_track_data(track)]
    /\ UNCHANGED <<pc, playlists, saved_tracks, idx, all_playlist_data, cache, requests,
                   output, exit_status, outcome>>

CallSavePlaylistsToJson ==
    /\ pc = "api"
    /\ call = NoCall
    /\ \E playlists_data \in ExportInputs :
          LET docs == save_playlists_to_json(playlists_data)
          IN  /\ call' = [fn |-> "save_playlists_to_json", arg |-> playlists_data]
              /\ output' = [dir |-> TRUE, written |-> TRUE,
                            full |-> docs.full, minimal |-> docs.minimal]
    /\ UNCHANGED <<pc, playlists, saved_tracks, idx, all_playlist_data, cache, requests,
                   exit_status, outcome>>

NextExport == CallFormatTrackData \/ CallSavePlaylistsToJson

SpecExport == InitApi /\ [][NextExport]_vars

----------------------------------------------------------------------------
(* What a walk over an endpoint's pages is expected to give: the pages up  *)
(* to the first whose next is null, by position                            *)

FirstNull(store) ==
    CHOOSE k \in 1..Len(store) :
        store[k].next = 0 /\ \A j \in 1..(k - 1) : store[j].next # 0

RECURSIVE ItemsUpTo(_, _)
ItemsUpTo(store, n) ==
    IF n = 0 THEN <<>> ELSE ItemsUpTo(store, n - 1) \o store[n].items

Expected(store) == ItemsUpTo(store, FirstNull(store))

\* one first request, then one next call per further page
NetOf(first, store) ==
    [i \in 1..FirstNull(store) |-> IF i = 1 THEN first ELSE "next"]

NonEmpty(p) == total_of(p) > 0

Range(q) == {q[i] : i \in 1..Len(q)}

\* a field the nested track object does not supply
Absent(track_info, k) == ~IsDict(track_info) \/ ~HasKey(track_info, k)

\* a track entry with a nested track object
WellShaped(track) ==
    IsDict(track) /\ HasKey(track, "track") /\ IsDict(track.v["track"])

\* an export entry that is a mapping with playlist_info other than None
HasMetadata(entry) ==
    ~IsNone(entry.value) /\ ~IsNone(Get(entry.value, "playlist_info", PyNone))

\* the track list the export loop iterates for an entry
TracksOf(entry) ==
    LET got == Get(entry.value, "tracks", PyList(<<>>))
    IN  IF IsNone(got) THEN <<>> ELSE got.v

\* an export entry whose tracks value is not None
HasTrackList(entry) == ~IsNone(Get(entry.value, "tracks", PyList(<<>>)))

\* an export entry with both metadata and a track list
KeptAsClaimed(entry) == HasMetadata(entry) /\ HasTrackList(entry)

NamesOfEntries(entries) ==
    [i \in 1..Len(entries) |-> entries[i].value.v["playlist_info"].v["name"]]

NamesOfDocs(docs) == [i \in 1..Len(docs) |-> docs[i].v["name"]]

----------------------------------------------------------------------------
(* C1: each of the three paginated fetches, given N pages of which only    *)
(* the last has a null next, issues one first request and exactly N-1 next *)
(* calls and returns the items of the N pages in page order and in the     *)
(* order within each page (the playlist listing: those with tracks)        *)
C1_WalkReturnsEveryPageInOrder ==
    /\ call.fn = "get_saved_tracks" =>
          /\ call.net = NetOf("current_user_saved_tracks", call.store)
          /\ call.ret = Expected(call.store)
    /\ call.fn = "current_user_playlists" =>
          /\ call.net = NetOf("current_user_playlists", call.store)
          /\ call.ret = SelectSeq(Expected(call.store), NonEmpty)
    /\ (call.fn = "get_playlist_tracks" /\ ~call.hit /\ call.id # S_liked_songs) =>
          /\ call.net = NetOf("playlist_tracks", call.tracks)
          /\ call.ret = Expected(call.tracks)
    /\ (call.fn = "get_playlist_tracks" /\ ~call.hit /\ call.id = S_liked_songs) =>
          /\ call.net = NetOf("current_user_saved_tracks", call.saved)
          /\ call.ret = Expected(call.saved)

\* a saved-track walk over a page of two items and a page of one
C1_Witness ==
    /\ call.fn = "get_saved_tracks"
    /\ FirstNull(call.store) = 2
    /\ Len(call.store[1].items) = 2
    /\ Len(call.store[2].items) = 1
    /\ Len(call.ret) = 3

----------------------------------------------------------------------------
(* C2: the listing holds exactly the fetched playlists with tracks.total > *)
(* 0, and the record liked_songs / Liked Songs / number of saved tracks if *)
(* and only if there are saved tracks                                      *)
C2_ListingIsFilteredPlusLiked ==
    (pc = "confirm") =>
        LET fetched == Expected(call.listed)
            liked == PyDict([id |-> PyStr(S_liked_songs),
                             name |-> PyStr(S_Liked_Songs),
                             tracks |-> PyDict([total |-> PyInt(Len(saved_tracks))])])
        IN  /\ saved_tracks = Expected(call.store)
            /\ \A i \in 1..Len(playlists) : total_of(playlists[i]) > 0
            /\ Range(playlists) =
                  {x \in Range(fetched) : total_of(x) > 0}
                  \cup (IF saved_tracks # <<>> THEN {liked} ELSE {})
            /\ Len(playlists) =
                  Len(SelectSeq(fetched, NonEmpty)) + (IF saved_tracks # <<>> THEN 1 ELSE 0)

\* an empty playlist was fetched and dropped, and Liked Songs was added
C2_Witness ==
    /\ pc = "confirm"
    /\ \E x \in Range(Expected(call.listed)) : total_of(x) = 0
    /\ Len(saved_tracks) = 2
    /\ Len(playlists) = 3

----------------------------------------------------------------------------
(* C3: the listing is in ascending order of the lower-cased name, the      *)
(* Liked Songs record included                                             *)
C3_ListingSortedByLowerName ==
    \A i \in 1..(Len(playlists) - 1) :
        StrLe(Lower(playlists[i].v["name"].v), Lower(playlists[i + 1].v["name"].v))

\* fetched as b, A with saved tracks: listed as A, b, Liked Songs
C3_Witness ==
    /\ pc = "confirm"
    /\ Len(playlists) = 3
    /\ playlists[1].v["name"].v = <<65>>
    /\ playlists[2].v["name"].v = <<98>>
    /\ playlists[3].v["name"].v = S_Liked_Songs
    /\ Expected(call.listed)[1].v["name"].v = <<98>>

----------------------------------------------------------------------------
(* C4: get_playlist_tracks never asks the playlist-tracks endpoint for the *)
(* id liked_songs and returns the walk of the saved-tracks endpoint for    *)
(* it, whatever the other endpoint holds; for another id it returns the    *)
(* walk of the playlist-tracks endpoint for that id.  A call the memo      *)
(* answers returns what that walk returned and asks no endpoint.           *)
C4_SentinelReadsSavedTracks ==
    /\ requests[S_liked_songs] = 0
    /\ (call.fn = "get_playlist_tracks" /\ ~call.hit) =>
          IF call.id = S_liked_songs
          THEN /\ call.ret = Expected(call.saved)
               /\ call.net = NetOf("current_user_saved_tracks", call.saved)
          ELSE /\ call.ret = Expected(call.tracks)
               /\ call.net = NetOf("playlist_tracks", call.tracks)
    /\ (call.fn = "get_playlist_tracks" /\ call.hit) =>
          /\ call.ret = cache[call.id]
          /\ call.net = <<>>

\* a first call with liked_songs while both endpoints hold tracks
C4_Witness ==
    /\ call.fn = "get_playlist_tracks"
    /\ call.id = S_liked_songs
    /\ ~call.hit
    /\ Len(call.ret) = 2
    /\ Expected(call.tracks) # <<>>

----------------------------------------------------------------------------
(* C5: the playlist-tracks endpoint is asked at most once for an id other  *)
(* than liked_songs; once an id is memoised no step asks for it again, and *)
(* a call with it returns the memoised result without a request            *)
C5_FetchedOncePerId ==
    [][\A id \in AllIds \ {S_liked_songs} :
          /\ requests'[id] <= 1
          /\ id \in DOMAIN cache =>
                /\ id \in DOMAIN cache'
                /\ cache'[id] = cache[id]
                /\ requests'[id] = requests[id]
                /\ (call'.fn = "get_playlist_tracks" /\ call'.id = id) =>
                      (call'.ret = cache[id] /\ call'.net = <<>>)]_vars

\* a repeated call answered from the memo although the endpoint now holds other tracks
C5_Witness ==
    /\ call.fn = "get_playlist_tracks"
    /\ call.id = S_p1
    /\ call.hit
    /\ requests[S_p1] = 1
    /\ call.ret # Expected(call.tracks)
    /\ Len(call.ret) = 2

----------------------------------------------------------------------------
(* C6: format_track_data never raises: a record that is no mapping or has  *)
(* no track key gives the empty record and an error logged; a record with  *)
(* a track key gives a record of the eight fields in which each absent     *)
(* field, also of a nested track that is null, has its default             *)
C6_AsClaimed ==
    call.fn = "format_track_data" =>
        LET track == call.arg
            answer == call.answer
        IN  /\ ~answer.raised
            /\ (~IsDict(track) \/ ~HasKey(track, "track")) =>
                  (answer.ret = EmptyDict /\ answer.logged)
            /\ (IsDict(track) /\ HasKey(track, "track")) =>
                  LET track_info == track.v["track"]
                      ret == answer.ret.v
                  IN  /\ DOMAIN ret = {"id", "name", "artists", "album", "duration_ms",
                                       "added_at", "uri", "external_url"}
                      /\ \A k \in {"id", "name", "uri"} :
                            Absent(track_info, k) => ret[k] = EmptyStr
                      /\ Absent(track_info, "artists") => ret["artists"] = PyList(<<>>)
                      /\ Absent(track_info, "album") => ret["album"] = EmptyStr
                      /\ Absent(track_info, "duration_ms") => ret["duration_ms"] = PyInt(0)
                      /\ Absent(track_info, "external_urls") => ret["external_url"] = EmptyStr
                      /\ ~HasKey(track, "added_at") => ret["added_at"] = EmptyStr

----------------------------------------------------------------------------
(* C7: in the export a track entry that is null or has no nested track     *)
(* object adds nothing to the playlist's tracks in the full document and   *)
(* nothing in the minimal one, and the tracks after it are exported        *)
C7_AsClaimed ==
    call.fn = "save_playlists_to_json" =>
        LET exported == SelectSeq(call.arg, HasMetadata)
        IN  \A i \in 1..Len(exported) :
               LET good == SelectSeq(TracksOf(exported[i]), WellShaped)
               IN  /\ i <= Len(output.full) /\ i <= Len(output.minimal)
                   /\ output.full[i].v["tracks"].v =
                         [j \in 1..Len(good) |-> format_track_data(good[j]).ret]
                   /\ Len(output.minimal[i].v["tracks"].v) = Len(good)

----------------------------------------------------------------------------
----------------------------------------------------------------------------
(* C9: a declined confirmation and an interrupt at any stage end the       *)
(* process with status 0; after a declined confirmation no playlist's      *)
(* tracks were requested and no output directory or file exists            *)
C9_CancellationExitsZero ==
    /\ (pc = "exited" /\ outcome \in {"declined", "interrupted"}) => exit_status = 0
    /\ outcome = "declined" =>
          /\ \A id \in AllIds : requests[id] = 0
          /\ cache = EmptyMap
          /\ call.fn # "get_playlist_tracks"
          /\ all_playlist_data = <<>>
          /\ output = NoOutput

\* the operator declined a listing of two playlists
C9_Witness ==
    /\ pc = "exited"
    /\ outcome = "declined"
    /\ exit_status = 0
    /\ Len(playlists) = 2

----------------------------------------------------------------------------
(* C10: when the operator confirms and nothing fails, every listed         *)
(* playlist has exactly one playlist document in the full export and one   *)
(* in the minimal export, in listing order and with its own tracks, also   *)
(* when two listed playlists share a display name                          *)
C10_AsClaimed ==
    outcome = "completed" =>
        /\ Len(output.full) = Len(playlists)
        /\ Len(output.minimal) = Len(playlists)
        /\ \A i \in 1..Len(playlists) :
              LET fetched == cache[playlists[i].v["id"].v]
              IN  /\ output.full[i].v["id"] = playlists[i].v["id"]
                  /\ output.full[i].v["name"] = playlists[i].v["name"]
                  /\ output.minimal[i].v["name"] = playlists[i].v["name"]
                  /\ output.full[i].v["tracks"].v =
                        [j \in 1..Len(fetched) |-> format_track_data(fetched[j]).ret]
                  /\ Len(output.minimal[i].v["tracks"].v) = Len(fetched)

====
